---- MODULE Spec2Model ----
(***************************************************************************)
(* Model of gitui's hook-gated commit: asyncgit/src/sync/hooks.rs          *)
(* (hooks_commit_msg, hooks_post_commit, hook_runable, run_hook) and       *)
(* src/components/commit.rs (CommitComponent).                             *)
(*                                                                         *)
(* Text is a sequence of characters; a file and a process's output are     *)
(* sequences of bytes.  Two characters are modelled: "c" (one byte in      *)
(* UTF-8, also the key that opens the dialog) and "e_acute" (two bytes).   *)
(***************************************************************************)
EXTENDS Integers, Sequences, FiniteSets, TLC

\* ---------------------------------------------------------------- bounds
MaxMsgLen == 1
MaxQueue == 1
MaxCommits == 1

\* ------------------------------------------------------------------ text
Chars == {"c", "e_acute"}

\* The UTF-8 bytes of one character: U+0063 is 0x63, U+00E9 is 0xC3 0xA9.
EncodeChar(ch) == IF ch = "c" THEN <<99>> ELSE <<195, 169>>

RECURSIVE Utf8Encode(_)
\* write!(file, "{}", msg): the bytes of a String.
Utf8Encode(s) ==
    IF s = <<>> THEN <<>> ELSE EncodeChar(Head(s)) \o Utf8Encode(Tail(s))

RECURSIVE Utf8Decode(_)
\* String::from_utf8 / read_to_string: the text of a byte sequence, or an
\* error (and no text) when the bytes are not UTF-8.
Utf8Decode(b) ==
    IF b = <<>> THEN [ok |-> TRUE, str |-> <<>>]
    ELSE IF Head(b) = 99
         THEN LET rest == Utf8Decode(Tail(b))
              IN  IF rest.ok THEN [ok |-> TRUE, str |-> <<"c">> \o rest.str]
                  ELSE rest
    ELSE IF Head(b) = 195 /\ Len(b) >= 2 /\ b[2] = 169
         THEN LET rest == Utf8Decode(SubSeq(b, 3, Len(b)))
              IN  IF rest.ok
                  THEN [ok |-> TRUE, str |-> <<"e_acute">> \o rest.str]
                  ELSE rest
    ELSE [ok |-> FALSE, str |-> <<>>]

\* ----------------------------------------------------------- HookResult
Ok == [tag |-> "Ok"]
NotOk(e) == [tag |-> "NotOk", diag |-> e]
\* Not a HookResult: an unwrap()/expect() that failed, the call unwinds.
Panic == [tag |-> "Panic"]

HOOK_POST_COMMIT == ".git/hooks/post-commit"
HOOK_COMMIT_MSG == ".git/hooks/commit-msg"

\* ------------------------------------------------- the hooks' environment
\* What is at a hook's path when the call looks.
HookFiles == {"absent", "not_executable", "executable"}

\* What the operating system and the hook process do during one call:
\* fault is the first step that fails ("none": no step does), status the
\* process's exit status, stdout and stderr the bytes it printed, touch what
\* it did to the file named by its argument (bytes: what it wrote there).
Behaviour(fault, status, stdout, stderr, touch, bytes) ==
    [fault |-> fault, status |-> status, stdout |-> stdout,
     stderr |-> stderr, touch |-> touch, bytes |-> bytes]

Quiet == Behaviour("none", 0, <<>>, <<>>, "keep", <<>>)

ExitStatuses == {0, 1, 2}

\* (stdout, stderr) pairs: nothing printed, both printed, and output that
\* is not UTF-8 on either stream.
Outputs ==
    { <<<<>>, <<>>>>, <<<<99>>, <<195, 169>>>>,
      <<<<195>>, <<>>>>, <<<<99>>, <<169>>>> }

\* What the commit-msg hook leaves of the message file: untouched,
\* rewritten (empty, text, bytes that are not UTF-8), or deleted.
Touches ==
    { <<"keep", <<>>>>, <<"write", <<>>>>, <<"write", <<195, 169>>>>,
      <<"write", <<195>>>>, <<"remove", <<>>>> }

\* A hook that is not run does nothing; one that is run may fail to start,
\* or run to any exit status with any output.
PostCommitBehaviours(hookFile) ==
    IF hookFile # "executable" THEN {Quiet}
    ELSE {Behaviour("spawn", 0, <<>>, <<>>, "keep", <<>>)}
         \cup {Behaviour("none", st, o[1], o[2], "keep", <<>>) :
                 st \in ExitStatuses, o \in Outputs}

CommitMsgBehaviours(hookFile) ==
    IF hookFile # "executable" THEN {Quiet}
    ELSE {Behaviour(f, 0, <<>>, <<>>, "keep", <<>>) :
                 f \in {"tmp_create", "tmp_write", "spawn"}}
         \cup {Behaviour("none", st, o[1], o[2], t[1], t[2]) :
                 st \in ExitStatuses, o \in Outputs, t \in Touches}

\* Names NamedTempFile::new may give a file, and another program's
\* temporary file.
TmpNames == {"tmp_a", "tmp_b"}
OtherTmpFiles == {"tmp_a"}

\* --------------------------------------------------------------- hooks.rs
\* hook_runable without the is_executable() test.
hook_runable_exists_only(hookFile) == hookFile # "absent"

\* path.exists() && path.is_executable()
hook_runable(hookFile) == hookFile # "absent" /\ hookFile = "executable"

\* What one run of a hook is recorded as: the command and its arguments.
Spawned(cmd, args) == [op |-> "spawn", cmd |-> cmd, args |-> args]

\* run_hook with the two streams joined in the order it decodes them.
run_hook_err_first(cmd, args, b) ==
    IF b.fault = "spawn"
    THEN [res |-> Panic, ops |-> <<>>]
    ELSE IF b.status = 0
         THEN [res |-> Ok, ops |-> <<Spawned(cmd, args)>>]
         ELSE LET err == Utf8Decode(b.stderr)
                  out == Utf8Decode(b.stdout)
              IN  IF ~err.ok \/ ~out.ok
                  THEN [res |-> Panic, ops |-> <<Spawned(cmd, args)>>]
                  ELSE [res |-> NotOk(err.str \o out.str),
                        ops |-> <<Spawned(cmd, args)>>]

\* run_hook: [res, ops]. output.status.success() is "exit status 0".
run_hook(cmd, args, b) ==
    IF b.fault = "spawn"
    THEN [res |-> Panic, ops |-> <<>>]
    ELSE IF b.status = 0
         THEN [res |-> Ok, ops |-> <<Spawned(cmd, args)>>]
         ELSE LET err == Utf8Decode(b.stderr)
                  out == Utf8Decode(b.stdout)
              IN  IF ~err.ok \/ ~out.ok
                  THEN [res |-> Panic, ops |-> <<Spawned(cmd, args)>>]
                  ELSE [res |-> NotOk(out.str \o err.str),
                        ops |-> <<Spawned(cmd, args)>>]

\* load_altered_msg without msg.clear(): the file's text is appended.
load_altered_msg_no_clear(m, bytes) ==
    LET text == Utf8Decode(bytes)
    IN  [ok |-> text.ok, str |-> m \o text.str]

\* load_altered_msg without the read: the message stays as it was passed.
load_altered_msg_not_read(m, bytes) ==
    [ok |-> Utf8Decode(bytes).ok, str |-> m]

\* "load possibly altered msg": msg.clear(), then read_to_string(msg)
\* appends the file's text to it; an error when the bytes are not UTF-8.
load_altered_msg(m, bytes) ==
    LET cleared == SubSeq(m, 1, 0)
        text == Utf8Decode(bytes)
    IN  [ok |-> text.ok, str |-> cleared \o text.str]

\* The file is kept (persisted) instead of removed.
DropTempFile_kept(files, name) == files

\* The NamedTempFile goes out of scope: its file is removed, on return and
\* on unwinding alike.
DropTempFile(files, name) == files \ {name}

\* hooks_commit_msg(repo_path, &mut msg): [res, msg, files, ops, left].
\* files: the temporary files that exist; name: the name NamedTempFile::new
\* picks; left: the bytes in the message file when the hook exited.
hooks_commit_msg(files, m, hookFile, b, name) ==
    LET Out(res, newMsg, fs, ops, left) ==
            [res |-> res, msg |-> newMsg, files |-> fs, ops |-> ops,
             left |-> left]
        created == <<[op |-> "tmp_create", name |-> name]>>
        removed == <<[op |-> "tmp_remove", name |-> name]>>
        written == Utf8Encode(m)
        run == run_hook(HOOK_COMMIT_MSG, <<name>>, b)
        left == IF b.touch = "write" THEN b.bytes ELSE written
        read == load_altered_msg(m, left)
    IN
    IF ~hook_runable(hookFile)
    THEN Out(Ok, m, files, <<>>, <<>>)
    ELSE IF b.fault = "tmp_create"
    THEN Out(Panic, m, files, <<>>, <<>>)
    ELSE IF b.fault = "tmp_write"
    THEN Out(Panic, m, DropTempFile(files \cup {name}, name),
             created \o removed, <<>>)
    ELSE IF run.res = Panic
    THEN Out(Panic, m, DropTempFile(files \cup {name}, name),
             created \o run.ops \o removed, <<>>)
    ELSE IF b.touch = "remove"
    THEN \* file.reopen().unwrap() finds no file
         Out(Panic, m, DropTempFile(files, name), created \o run.ops, <<>>)
    ELSE IF ~read.ok
    THEN \* msg.clear(), then read_to_string(msg).unwrap() fails
         Out(Panic, read.str, DropTempFile(files \cup {name}, name),
             created \o run.ops \o removed, left)
    ELSE Out(run.res, read.str, DropTempFile(files \cup {name}, name),
             created \o run.ops \o removed, left)

\* hooks_post_commit that runs the hook and drops what run_hook returned.
hooks_post_commit_result_dropped(hookFile, b) ==
    IF hook_runable(hookFile)
    THEN [res |-> Ok, ops |-> run_hook(HOOK_POST_COMMIT, <<>>, b).ops]
    ELSE [res |-> Ok, ops |-> <<>>]

\* hooks_post_commit(repo_path): [res, ops].
hooks_post_commit(hookFile, b) ==
    IF hook_runable(hookFile)
    THEN run_hook(HOOK_POST_COMMIT, <<>>, b)
    ELSE [res |-> Ok, ops |-> <<>>]

\* ----------------------------------------------------------------- state
VARIABLES
    msg,          \* CommitComponent.msg
    visible,      \* CommitComponent.visible
    stage_empty,  \* CommitComponent.stage_empty
    queue,        \* the Queue shared by the components
    commits,      \* the repository: the messages of the commits, oldest first
    tmpfiles,     \* the temporary files that exist
    panicked,     \* an unwrap()/expect() failed: the process is gone
    last          \* what the last operation was, read and did (history)

VARIABLES
    items,           \* ChangesComponent.items
    selection,       \* ChangesComponent.selection: <<>> is None, <<i>> Some(i)
    focused,         \* ChangesComponent.focused
    show_selection,  \* ChangesComponent.show_selection
    is_working_dir   \* ChangesComponent.is_working_dir

changesVars == <<items, selection, focused, show_selection, is_working_dir>>

vars == <<msg, visible, stage_empty, queue, commits, tmpfiles, panicked, last,
          items, selection, focused, show_selection, is_working_dir>>

\* ---------------------------------------------------------- InternalEvent
ShowMsg(text) == [type |-> "ShowMsg", text |-> text]
Update(flags) == [type |-> "Update", flags |-> flags]
ALL == "ALL"

\* format!("commit-msg hook error:\n{}", e), the fixed text as one item.
CommitMsgError(e) == <<"commit-msg hook error:\n">> \o e
\* format!("post-commit hook error:\n{}", e)
PostCommitError(e) == <<"post-commit hook error:\n">> \o e

\* ---------------------------------------------------------- input events
Key(code, ch, ctrl) == [type |-> "Key", code |-> code, ch |-> ch, ctrl |-> ctrl]
Resize == [type |-> "Resize"]
\* keys::OPEN_COMMIT
OPEN_COMMIT == Key("Char", "c", FALSE)

Events ==
    {Key(code, "", FALSE) : code \in {"Esc", "Enter", "Backspace", "Up"}}
    \cup {Key("Char", ch, ctrl) : ch \in Chars, ctrl \in BOOLEAN}
    \cup {Resize}

\* ---------------------------------------------------------------- git
\* sync::commit(CWD, &msg): a commit with this message is added.
sync_commit(cs, m) == Append(cs, m)
GitCommit(m) == [op |-> "commit", msg |-> m]

\* ------------------------------------------------------------ commit.rs
\* The post-commit hook was never reached.
NotRun == [res |-> [tag |-> "NotRun"], ops |-> <<>>]

\* can_commit that lets an empty message through.
can_commit_always == TRUE

can_commit == msg # <<>>

\* What commit() leaves: the component's fields, the queue, the repository,
\* the temporary files, what each hook call returned and, in order, what
\* was done outside the process.
Left(m, vis, q, cs, h, p, ops, pan) ==
    [msg |-> m, visible |-> vis, queue |-> q, commits |-> cs,
     files |-> h.files, cm |-> h, pc |-> p, ops |-> ops, panicked |-> pan]

\* commit_accepted that returns after the post-commit notification, as the
\* commit-msg branch does.
commit_accepted_post_returns(h, pcFile, pcB) ==
    LET cs == sync_commit(commits, h.msg)
        p == hooks_post_commit(pcFile, pcB)
        ops == h.ops \o <<GitCommit(h.msg)>> \o p.ops
    IN  IF p.res = Panic
        THEN Left(h.msg, visible, queue, cs, h, p, ops, TRUE)
        ELSE IF p.res.tag = "NotOk"
        THEN Left(h.msg, visible,
                  Append(queue, ShowMsg(PostCommitError(p.res.diag))),
                  cs, h, p, ops, FALSE)
        ELSE Left(<<>>, FALSE, Append(queue, Update(ALL)), cs, h, p, ops,
                  FALSE)

\* commit_accepted that enqueues the refresh before it runs the
\* post-commit hook.
commit_accepted_update_first(h, pcFile, pcB) ==
    LET cs == sync_commit(commits, h.msg)
        p == hooks_post_commit(pcFile, pcB)
        ops == h.ops \o <<GitCommit(h.msg)>> \o p.ops
        q == Append(queue, Update(ALL))
    IN  IF p.res = Panic
        THEN Left(h.msg, visible, q, cs, h, p, ops, TRUE)
        ELSE Left(<<>>, FALSE,
                  IF p.res.tag = "NotOk"
                  THEN Append(q, ShowMsg(PostCommitError(p.res.diag)))
                  ELSE q,
                  cs, h, p, ops, FALSE)

\* commit_accepted that commits the message as it was typed, not as the
\* hook returned it.
commit_accepted_typed_msg(h, pcFile, pcB) ==
    LET cs == sync_commit(commits, msg)
        p == hooks_post_commit(pcFile, pcB)
        ops == h.ops \o <<GitCommit(msg)>> \o p.ops
        q == IF p.res.tag = "NotOk"
             THEN Append(queue, ShowMsg(PostCommitError(p.res.diag)))
             ELSE queue
    IN  IF p.res = Panic
        THEN Left(h.msg, visible, queue, cs, h, p, ops, TRUE)
        ELSE Left(<<>>, FALSE, Append(q, Update(ALL)), cs, h, p, ops, FALSE)

\* CommitComponent::commit after the commit-msg hook let it pass (h is what
\* hooks_commit_msg returned): the commit, the post-commit hook, the reset.
commit_accepted(h, pcFile, pcB) ==
    LET cs == sync_commit(commits, h.msg)
        p == hooks_post_commit(pcFile, pcB)
        ops == h.ops \o <<GitCommit(h.msg)>> \o p.ops
        q == IF p.res.tag = "NotOk"
             THEN Append(queue, ShowMsg(PostCommitError(p.res.diag)))
             ELSE queue
    IN  IF p.res = Panic
        THEN Left(h.msg, visible, queue, cs, h, p, ops, TRUE)
        ELSE Left(<<>>, FALSE, Append(q, Update(ALL)), cs, h, p, ops, FALSE)

\* commit without the return in the commit-msg branch.
commit_no_return(files, cmFile, cmB, name, pcFile, pcB) ==
    LET h == hooks_commit_msg(files, msg, cmFile, cmB, name)
        a == commit_accepted(h, pcFile, pcB)
    IN
    IF h.res = Panic
    THEN Left(h.msg, visible, queue, commits, h, NotRun, h.ops, TRUE)
    ELSE IF h.res.tag = "NotOk"
    THEN [a EXCEPT !.queue =
            Append(queue, ShowMsg(CommitMsgError(h.res.diag)))
            \o SubSeq(a.queue, Len(queue) + 1, Len(a.queue))]
    ELSE a

\* CommitComponent::commit, given the temporary files that exist, the two
\* hook files and what each hook does if it is run.
commit(files, cmFile, cmB, name, pcFile, pcB) ==
    LET h == hooks_commit_msg(files, msg, cmFile, cmB, name)
    IN
    IF h.res = Panic
    THEN Left(h.msg, visible, queue, commits, h, NotRun, h.ops, TRUE)
    ELSE IF h.res.tag = "NotOk"
    THEN Left(h.msg, visible,
              Append(queue, ShowMsg(CommitMsgError(h.res.diag))),
              commits, h, NotRun, h.ops, FALSE)
    ELSE commit_accepted(h, pcFile, pcB)

\* What an event that did not reach commit() is recorded as.
Handled(ev, ret) ==
    [op |-> "event", ev |-> ev, ret |-> ret, commit |-> FALSE]

\* CommitComponent::event. The two bounds keep the model finite: an event
\* is taken while fewer than MaxQueue queue entries wait for the
\* application, and a commit is attempted while the repository holds fewer
\* than MaxCommits commits; typing stops at MaxMsgLen characters.
event(ev) ==
    /\ ~panicked
    /\ Len(queue) < MaxQueue
    /\ UNCHANGED changesVars
    /\ IF visible
       THEN IF ev.type = "Key"
            THEN CASE ev.code = "Esc" ->
                        /\ visible' = FALSE
                        /\ last' = Handled(ev, TRUE)
                        /\ UNCHANGED <<msg, stage_empty, queue, commits,
                                       tmpfiles, panicked>>
                   [] ev.code = "Char" ->
                        /\ Len(msg) < MaxMsgLen
                        /\ msg' = Append(msg, ev.ch)
                        /\ last' = Handled(ev, TRUE)
                        /\ UNCHANGED <<visible, stage_empty, queue, commits,
                                       tmpfiles, panicked>>
                   [] ev.code = "Enter" /\ can_commit ->
                        /\ Len(commits) < MaxCommits
                        /\ \E cmFile \in HookFiles, name \in TmpNames \ tmpfiles :
                           \E cmB \in CommitMsgBehaviours(cmFile) :
                           \E pcFile \in
                                IF hooks_commit_msg(tmpfiles, msg, cmFile, cmB,
                                                    name).res = Ok
                                THEN HookFiles ELSE {"absent"} :
                           \E pcB \in PostCommitBehaviours(pcFile) :
                             LET r == commit(tmpfiles, cmFile, cmB, name,
                                             pcFile, pcB)
                             IN  /\ msg' = r.msg
                                 /\ visible' = r.visible
                                 /\ queue' = r.queue
                                 /\ commits' = r.commits
                                 /\ tmpfiles' = r.files
                                 /\ panicked' = r.panicked
                                 /\ last' =
                                      [op |-> "event", ret |-> TRUE,
                                       commit |-> TRUE,
                                       pre_msg |-> msg, pre_queue |-> queue,
                                       pre_commits |-> commits,
                                       pre_files |-> tmpfiles,
                                       cm |-> r.cm, pc |-> r.pc, ops |-> r.ops]
                                 /\ UNCHANGED stage_empty
                   [] ev.code = "Backspace" /\ msg # <<>> ->
                        /\ msg' = SubSeq(msg, 1, Len(msg) - 1)
                        /\ last' = Handled(ev, TRUE)
                        /\ UNCHANGED <<visible, stage_empty, queue, commits,
                                       tmpfiles, panicked>>
                   [] OTHER ->
                        /\ last' = Handled(ev, TRUE)
                        /\ UNCHANGED <<msg, visible, stage_empty, queue,
                                       commits, tmpfiles, panicked>>
            ELSE /\ last' = Handled(ev, FALSE)
                 /\ UNCHANGED <<msg, visible, stage_empty, queue, commits,
                                tmpfiles, panicked>>
       ELSE IF ev.type = "Key" /\ ev = OPEN_COMMIT /\ ~stage_empty
            THEN /\ visible' = TRUE
                 /\ last' = Handled(ev, TRUE)
                 /\ UNCHANGED <<msg, stage_empty, queue, commits, tmpfiles,
                                panicked>>
            ELSE /\ last' = Handled(ev, FALSE)
                 /\ UNCHANGED <<msg, visible, stage_empty, queue, commits,
                                tmpfiles, panicked>>

\* CommitComponent::set_stage_empty
set_stage_empty(empty) ==
    /\ ~panicked
    /\ stage_empty' = empty
    /\ last' = [op |-> "set_stage_empty", commit |-> FALSE]
    /\ UNCHANGED <<msg, visible, queue, commits, tmpfiles, panicked>>
    /\ UNCHANGED changesVars

\* The application takes the event at the head of the queue.
process_queue ==
    /\ ~panicked
    /\ queue # <<>>
    /\ queue' = Tail(queue)
    /\ last' = [op |-> "process_queue", commit |-> FALSE]
    /\ UNCHANGED <<msg, visible, stage_empty, commits, tmpfiles, panicked>>
    /\ UNCHANGED changesVars

\* Option<usize>
None == <<>>
Some(i) == <<i>>

\* ChangesComponent::new(title, focus, is_working_dir, queue)
ChangesNew(focus, workdir) ==
    /\ items = <<>>
    /\ selection = None
    /\ focused = focus
    /\ show_selection = focus
    /\ is_working_dir = workdir

\* CommitComponent::new, an empty repository, no temporary file of ours.
Init ==
    /\ msg = <<>>
    /\ visible = FALSE
    /\ stage_empty = TRUE
    /\ queue = <<>>
    /\ commits = <<>>
    /\ tmpfiles = OtherTmpFiles
    /\ panicked = FALSE
    /\ last = [op |-> "new", commit |-> FALSE]
    /\ ChangesNew(TRUE, TRUE)

\* ------------------------------------------- the hook functions alone
\* hooks_commit_msg and hooks_post_commit called directly, as the tests of
\* hooks.rs call them, on any message and with other programs' temporary
\* files around.
MaxHookMsgLen == 2

RECURSIVE Texts(_)
Texts(n) ==
    IF n = 0 THEN {<<>>}
    ELSE Texts(n - 1) \cup {Append(t, ch) : t \in Texts(n - 1), ch \in Chars}

call_hooks_commit_msg ==
    /\ ~panicked
    /\ \E cmFile \in HookFiles, name \in TmpNames \ tmpfiles :
       \E cmB \in CommitMsgBehaviours(cmFile) :
         LET h == hooks_commit_msg(tmpfiles, msg, cmFile, cmB, name)
         IN  /\ msg' = h.msg
             /\ tmpfiles' = h.files
             /\ panicked' = (h.res = Panic)
             /\ last' = [op |-> "hooks_commit_msg", commit |-> FALSE,
                         pre_msg |-> msg, pre_files |-> tmpfiles,
                         cm_file |-> cmFile, cm_b |-> cmB, name |-> name,
                         cm |-> h]
    /\ UNCHANGED <<visible, stage_empty, queue, commits>>
    /\ UNCHANGED changesVars

call_hooks_post_commit ==
    /\ ~panicked
    /\ \E pcFile \in HookFiles :
       \E pcB \in PostCommitBehaviours(pcFile) :
         LET p == hooks_post_commit(pcFile, pcB)
         IN  /\ panicked' = (p.res = Panic)
             /\ last' = [op |-> "hooks_post_commit", commit |-> FALSE,
                         pre_msg |-> msg, pre_files |-> tmpfiles,
                         pc_file |-> pcFile, pc_b |-> pcB, pc |-> p]
    /\ UNCHANGED <<msg, visible, stage_empty, queue, commits, tmpfiles>>
    /\ UNCHANGED changesVars

HookInit ==
    /\ msg \in Texts(MaxHookMsgLen)
    /\ visible = FALSE
    /\ stage_empty = TRUE
    /\ queue = <<>>
    /\ commits = <<>>
    /\ tmpfiles \in SUBSET OtherTmpFiles
    /\ panicked = FALSE
    /\ last = [op |-> "new", commit |-> FALSE]
    /\ ChangesNew(TRUE, TRUE)

HookNext == call_hooks_commit_msg \/ call_hooks_post_commit

HookSpec == HookInit /\ [][HookNext]_vars

Next ==
    \/ \E ev \in Events : event(ev)
    \/ \E empty \in BOOLEAN : set_stage_empty(empty)
    \/ process_queue

Spec == Init /\ [][Next]_vars

\* -------------------------------------------------------------- claims
\* What the last commit() pushed onto the queue, and whether the queue
\* still starts with what it held before.
Pushed == SubSeq(queue, Len(last.pre_queue) + 1, Len(queue))
QueueKept ==
    /\ Len(queue) >= Len(last.pre_queue)
    /\ SubSeq(queue, 1, Len(last.pre_queue)) = last.pre_queue

IsSpawn(o, cmd) == o.op = "spawn" /\ o.cmd = cmd

\* C1: when the commit-msg hook returns NotOk, commit() creates no commit,
\* does not run the post-commit hook, enqueues no Update, and pushes exactly
\* one ShowMsg, which carries the hook's diagnostic.
C1_RejectedCommitAborts ==
    (last.commit /\ last.cm.res.tag = "NotOk") =>
        /\ commits = last.pre_commits
        /\ \A i \in DOMAIN last.ops :
              /\ last.ops[i].op # "commit"
              /\ ~IsSpawn(last.ops[i], HOOK_POST_COMMIT)
        /\ last.pc = NotRun
        /\ QueueKept
        /\ Pushed = <<ShowMsg(CommitMsgError(last.cm.res.diag))>>
        /\ ~panicked

C1_Witness ==
    /\ last.commit
    /\ last.cm.res.tag = "NotOk"
    /\ last.cm.res.diag = <<"c", "e_acute">>
    /\ Len(queue) = 1

\* C2: after a commit attempt that the commit-msg hook rejected, the dialog
\* is still visible and the message is the text the hook left in the
\* message file.
C2_RejectedKeepsHookMessage ==
    (last.commit /\ last.cm.res.tag = "NotOk") =>
        /\ visible
        /\ Utf8Encode(msg) = last.cm.left

C2_Witness ==
    /\ last.commit
    /\ last.cm.res.tag = "NotOk"
    /\ last.pre_msg = <<"c">>
    /\ last.cm.left = <<195, 169>>
    /\ msg = <<"e_acute">>
    /\ visible

\* C3: when the commit-msg hook passes and the post-commit hook returns
\* NotOk, the commit stays in the repository, a ShowMsg with the post-commit
\* diagnostic is enqueued, and commit() goes on: the dialog is reset and the
\* refresh is enqueued.
C3_PostCommitRejectionIsWarning ==
    (last.commit /\ last.cm.res = Ok /\ last.pc.res.tag = "NotOk") =>
        /\ commits = Append(last.pre_commits, last.cm.msg)
        /\ QueueKept
        /\ \E i \in DOMAIN Pushed :
              Pushed[i] = ShowMsg(PostCommitError(last.pc.res.diag))
        /\ \E i \in DOMAIN Pushed : Pushed[i].type = "Update"
        /\ msg = <<>>
        /\ ~visible
        /\ ~panicked

C3_Witness ==
    /\ last.commit
    /\ last.cm.res = Ok
    /\ last.pc.res = NotOk(<<"c", "e_acute">>)
    /\ Len(commits) = Len(last.pre_commits) + 1

\* C4: every commit() that the commit-msg hook did not reject and that
\* returns ends with the message empty, the dialog hidden and exactly one
\* Update(ALL) pushed, after the post-commit ShowMsg if there is one.
C4_AcceptedCommitResets ==
    (last.commit /\ last.cm.res = Ok /\ last.pc.res.tag \in {"Ok", "NotOk"}) =>
        /\ msg = <<>>
        /\ ~visible
        /\ QueueKept
        /\ Pushed # <<>>
        /\ Pushed[Len(Pushed)] = Update(ALL)
        /\ \A i \in DOMAIN Pushed :
              Pushed[i].type = "Update" => i = Len(Pushed)
        /\ last.pc.res.tag = "NotOk" =>
              Pushed = <<ShowMsg(PostCommitError(last.pc.res.diag)),
                         Update(ALL)>>
        /\ last.pc.res.tag = "Ok" => Pushed = <<Update(ALL)>>

C4_Witness ==
    /\ last.commit
    /\ last.cm.res = Ok
    /\ last.pc.res.tag = "NotOk"
    /\ Len(Pushed) = 2
    /\ last.pre_msg # <<>>
    /\ msg = <<>>

\* C5: commit() runs the commit-msg hook, then creates the commit, then runs
\* the post-commit hook; the commit carries the message hooks_commit_msg
\* returned (the hook's rewrite when it rewrote the file), and the
\* post-commit hook runs only after a commit was created.
C5_CommitWorkflowOrder ==
    last.commit =>
        LET ops == last.ops
            created == {i \in DOMAIN ops : ops[i].op = "commit"}
        IN  /\ \A i \in created :
                  /\ \A j \in DOMAIN ops :
                        IsSpawn(ops[j], HOOK_COMMIT_MSG) => j < i
                  /\ ops[i].msg = last.cm.msg
                  /\ last.cm.ops # <<>> => Utf8Encode(ops[i].msg) = last.cm.left
                  /\ last.cm.ops = <<>> => ops[i].msg = last.pre_msg
                  /\ commits = Append(last.pre_commits, ops[i].msg)
            /\ Cardinality(created) <= 1
            /\ created = {} => commits = last.pre_commits
            /\ last.cm.res = Ok => created # {}
            /\ \A j \in DOMAIN ops :
                  IsSpawn(ops[j], HOOK_POST_COMMIT) =>
                      \E i \in created : i < j

C5_Witness ==
    /\ last.commit
    /\ last.pre_msg = <<"c">>
    /\ \E i, j, k \in DOMAIN last.ops :
          /\ i < j /\ j < k
          /\ IsSpawn(last.ops[i], HOOK_COMMIT_MSG)
          /\ last.ops[j] = GitCommit(<<"e_acute">>)
          /\ IsSpawn(last.ops[k], HOOK_POST_COMMIT)
    /\ commits = Append(last.pre_commits, <<"e_acute">>)

\* The result run_hook owes a hook that ran with behaviour b.
Diagnostic(b) == Utf8Decode(b.stdout).str \o Utf8Decode(b.stderr).str
Decodable(b) == Utf8Decode(b.stdout).ok /\ Utf8Decode(b.stderr).ok
Classified(b, res) ==
    IF b.status = 0 THEN res = Ok ELSE res = NotOk(Diagnostic(b))

\* C6: with no commit-msg hook, or one that is not executable,
\* hooks_commit_msg returns Ok, leaves the message as it was, creates no
\* temporary file and starts no process.
C6_NotRunnableIsOk ==
    (last.op = "hooks_commit_msg" /\ last.cm_file # "executable") =>
        /\ last.cm.res = Ok
        /\ msg = last.pre_msg
        /\ last.cm.ops = <<>>
        /\ tmpfiles = last.pre_files
        /\ ~panicked

C6_Witness ==
    /\ last.op = "hooks_commit_msg"
    /\ last.cm_file = "not_executable"
    /\ last.pre_msg = <<"c", "e_acute">>
    /\ msg = <<"c", "e_acute">>

\* C7: when a runnable commit-msg hook has run and hooks_commit_msg
\* returns, the message is the text of the message file as the hook left
\* it, whatever the exit status: the message passed in when the hook did
\* not touch the file, the hook's text when it rewrote it.
C7_MessageIsFileContent ==
    (/\ last.op = "hooks_commit_msg"
     /\ last.cm_file = "executable"
     /\ last.cm.res # Panic) =>
        LET b == last.cm_b
            content == IF b.touch = "write" THEN b.bytes
                       ELSE Utf8Encode(last.pre_msg)
        IN  /\ Utf8Decode(content) = [ok |-> TRUE, str |-> msg]
            /\ Utf8Encode(msg) = content
            /\ b.touch = "keep" => msg = last.pre_msg
            /\ b.status = 0 <=> last.cm.res = Ok

C7_Witness ==
    /\ last.op = "hooks_commit_msg"
    /\ last.cm_b.status # 0
    /\ last.cm_b.touch = "write"
    /\ last.cm.res.tag = "NotOk"
    /\ last.pre_msg = <<"c", "c">>
    /\ msg = <<"e_acute">>

\* C8: a hook that ran and whose call returned is classified by its exit
\* status alone: 0 gives Ok, anything else NotOk with the text of stdout
\* followed by the text of stderr; the call fails to return only when the
\* process cannot be started or a nonzero exit comes with output that is
\* not UTF-8.
C8_ClassifiedByExitStatus ==
    /\ (/\ last.op = "hooks_commit_msg"
        /\ last.cm_file = "executable"
        /\ last.cm.res # Panic) => Classified(last.cm_b, last.cm.res)
    /\ (last.op = "hooks_post_commit" /\ last.pc_file = "executable") =>
          /\ last.pc.res # Panic => Classified(last.pc_b, last.pc.res)
          /\ last.pc.res = Panic <=>
                \/ last.pc_b.fault = "spawn"
                \/ last.pc_b.status # 0 /\ ~Decodable(last.pc_b)

C8_Witness ==
    /\ last.op = "hooks_post_commit"
    /\ last.pc_b.status = 2
    /\ last.pc_b.stdout = <<99>>
    /\ last.pc_b.stderr = <<195, 169>>
    /\ last.pc.res = NotOk(<<"c", "e_acute">>)

\* C9: a hooks_commit_msg call that runs the hook creates its temporary
\* file under a name no file had, and when the call has ended (returned
\* Ok, returned NotOk, or failed) that file is gone and the other files
\* are as they were.
C9_TempFileRemoved ==
    last.op = "hooks_commit_msg" =>
        LET ops == last.cm.ops
            made == {i \in DOMAIN ops : ops[i].op = "tmp_create"}
        IN  /\ tmpfiles = last.pre_files
            /\ \A i \in made :
                  /\ i = 1
                  /\ ops[i].name \notin last.pre_files
                  /\ ops[i].name \notin tmpfiles
            /\ (last.cm_file = "executable" /\ last.cm_b.fault # "tmp_create")
                  => made = {1}
            /\ \A i \in DOMAIN ops :
                  IsSpawn(ops[i], HOOK_COMMIT_MSG) =>
                      /\ made = {1}
                      /\ ops[i].args = <<ops[1].name>>

C9_Witness ==
    /\ last.op = "hooks_commit_msg"
    /\ last.cm.res = Panic
    /\ last.cm_b.fault = "none"
    /\ last.cm_b.touch = "write"
    /\ last.pre_files # {}
    /\ last.cm.ops[1].op = "tmp_create"

\* C10: hooks_post_commit returns Ok when the hook is not runnable, Ok on
\* exit status 0 and NotOk with the diagnostic otherwise, as
\* hooks_commit_msg does for the same hook file and behaviour; it starts the
\* hook with no arguments and changes no message.
C10_PostCommitHook ==
    last.op = "hooks_post_commit" =>
        /\ msg = last.pre_msg
        /\ tmpfiles = last.pre_files
        /\ last.pc_file # "executable" =>
              last.pc.res = Ok /\ last.pc.ops = <<>>
        /\ (last.pc_file = "executable" /\ last.pc.res # Panic) =>
              /\ last.pc.ops = <<Spawned(HOOK_POST_COMMIT, <<>>)>>
              /\ Classified(last.pc_b, last.pc.res)
        /\ last.pc.res =
              hooks_commit_msg({}, last.pre_msg, last.pc_file, last.pc_b,
                               "tmp_b").res

C10_Witness ==
    /\ last.op = "hooks_post_commit"
    /\ last.pc_file = "executable"
    /\ last.pc.res.tag = "NotOk"
    /\ last.pc.res.diag # <<>>
    /\ last.pc.ops[1].args = <<>>
    /\ msg # <<>>

\* ------------------------------------------------------------ changes.rs
MaxItems == 2

\* StatusItem values the status query may return.
StatusItems ==
    { [path |-> "a.rs", status |-> "Modified"],
      [path |-> "b.rs", status |-> "New"] }

RECURSIVE ItemLists(_)
ItemLists(n) ==
    IF n = 0 THEN {<<>>}
    ELSE ItemLists(n - 1)
         \cup {Append(l, i) : l \in ItemLists(n - 1), i \in StatusItems}

\* asyncgit::hash: a fingerprint of the list's content (each item's path and
\* status, in order); two lists are taken as equal when it is equal.
hash(list) == [i \in DOMAIN list |-> <<list[i].path, list[i].status>>]

DIFF == "DIFF"
ConfirmResetFile(path) == [type |-> "ConfirmResetFile", path |-> path]

\* keys.rs
STATUS_RESET_FILE == Key("Char", "D", FALSE)
STATUS_STAGE_FILE == Key("Enter", "", FALSE)
MOVE_UP == Key("Up", "", FALSE)
MOVE_DOWN == Key("Down", "", FALSE)

\* Inputs of ChangesComponent::event: the four keys it knows, a key it does
\* not, the reset key with a modifier held, and an event that is no key.
ChangesEvents ==
    {STATUS_RESET_FILE, STATUS_STAGE_FILE, MOVE_UP, MOVE_DOWN,
     Key("Esc", "", FALSE), Key("Char", "D", TRUE), Resize}

I32_MAX == 2147483647

Min(a, b) == IF a < b THEN a ELSE b
Max(a, b) == IF a > b THEN a ELSE b

\* update that puts the selection back on the first item at every call.
update_resets_selection(list) ==
    [items |-> list,
     selection |-> IF list = <<>> THEN None ELSE Some(0)]

\* update that keeps the previous index whatever the new length.
update_unclamped(list) ==
    IF hash(items) # hash(list)
    THEN [items |-> list,
          selection |-> IF list = <<>> THEN None
                        ELSE IF selection = None THEN Some(0) ELSE selection]
    ELSE [items |-> items, selection |-> selection]

\* update that selects nothing when nothing was selected.
update_keeps_none(list) ==
    IF hash(items) # hash(list)
    THEN [items |-> list,
          selection |-> IF list = <<>> \/ selection = None THEN None
                        ELSE Some(Min(selection[1], Len(list) - 1))]
    ELSE [items |-> items, selection |-> selection]

\* ChangesComponent::update: [items, selection].
update(list) ==
    IF hash(items) # hash(list)
    THEN LET old_selection == IF selection = None THEN 0 ELSE selection[1]
         IN  [items |-> list,
              selection |-> IF list = <<>> THEN None
                            ELSE Some(Min(old_selection, Len(list) - 1))]
    ELSE [items |-> items, selection |-> selection]

\* ChangesComponent::selection: the selected item, None, or a panic when
\* the index is past the end of items.
selected ==
    IF selection = None THEN [panic |-> FALSE, item |-> None]
    ELSE IF selection[1] < Len(items)
         THEN [panic |-> FALSE, item |-> Some(items[selection[1] + 1])]
         ELSE [panic |-> TRUE, item |-> None]

\* What a handler's step leaves: its return value, the selection, the
\* queue, the calls made to git, and whether it panicked.
Done(ret, sel, q, git, pan) ==
    [ret |-> ret, selection |-> sel, queue |-> q, git |-> git,
     panicked |-> pan]

\* move_selection without the upper clamp.
move_selection_no_upper_clamp(delta) ==
    IF Len(items) > 0 /\ selection # None
    THEN Done(TRUE, Some(Max(selection[1] + delta, 0)),
              Append(queue, Update(DIFF)), <<>>, FALSE)
    ELSE Done(FALSE, selection, queue, <<>>, FALSE)

\* move_selection that wraps around at either end.
move_selection_wraps(delta) ==
    IF Len(items) > 0 /\ selection # None
    THEN Done(TRUE, Some((selection[1] + delta) % Len(items)),
              Append(queue, Update(DIFF)), <<>>, FALSE)
    ELSE Done(FALSE, selection, queue, <<>>, FALSE)

\* move_selection that reports failure, and asks for no refresh, when the
\* clamp leaves the index where it was.
move_selection_quiet_when_unchanged(delta) ==
    IF Len(items) > 0 /\ selection # None
    THEN LET i == Max(Min(selection[1] + delta, Len(items) - 1), 0)
         IN  IF i = selection[1]
             THEN Done(FALSE, selection, queue, <<>>, FALSE)
             ELSE Done(TRUE, Some(i), Append(queue, Update(DIFF)), <<>>,
                       FALSE)
    ELSE Done(FALSE, selection, queue, <<>>, FALSE)

\* move_selection that puts its Update(DIFF) at the head of the queue.
move_selection_push_front(delta) ==
    IF Len(items) > 0 /\ selection # None
    THEN Done(TRUE,
              Some(Max(Min(selection[1] + delta, Len(items) - 1), 0)),
              <<Update(DIFF)>> \o queue, <<>>, FALSE)
    ELSE Done(FALSE, selection, queue, <<>>, FALSE)

\* ChangesComponent::move_selection
move_selection(delta) ==
    LET items_len == Len(items)
    IN  IF /\ items_len > 0
           /\ selection # None
           /\ selection[1] <= I32_MAX
           /\ items_len <= I32_MAX
        THEN LET i == Max(Min(selection[1] + delta, items_len - 1), 0)
             IN  Done(TRUE, Some(i), Append(queue, Update(DIFF)), <<>>, FALSE)
        ELSE Done(FALSE, selection, queue, <<>>, FALSE)

\* A call into git: sync::stage_add(CWD, path) or sync::reset_stage(CWD, path).
GitCall(fn, path) == [fn |-> fn, path |-> path]

\* index_add_remove that unstages from the working-directory panel and
\* stages from the other.
index_add_remove_swapped(ok) ==
    IF selected.panic THEN Done(FALSE, selection, queue, <<>>, TRUE)
    ELSE IF selected.item # None
    THEN IF is_working_dir
         THEN Done(ok, selection, queue,
                   <<GitCall("reset_stage", selected.item[1].path)>>, FALSE)
         ELSE Done(ok, selection, queue,
                   <<GitCall("stage_add", selected.item[1].path)>>, FALSE)
    ELSE Done(FALSE, selection, queue, <<>>, FALSE)

\* ChangesComponent::index_add_remove; ok is what the git call returns.
index_add_remove(ok) ==
    IF selected.panic THEN Done(FALSE, selection, queue, <<>>, TRUE)
    ELSE IF selected.item # None
    THEN IF is_working_dir
         THEN Done(ok, selection, queue,
                   <<GitCall("stage_add", selected.item[1].path)>>, FALSE)
         ELSE Done(ok, selection, queue,
                   <<GitCall("reset_stage", selected.item[1].path)>>, FALSE)
    ELSE Done(FALSE, selection, queue, <<>>, FALSE)

\* ChangesComponent::dispatch_reset_workdir
dispatch_reset_workdir ==
    IF selected.panic THEN Done(FALSE, selection, queue, <<>>, TRUE)
    ELSE IF selected.item # None
    THEN Done(TRUE, selection,
              Append(queue, ConfirmResetFile(selected.item[1].path)),
              <<>>, FALSE)
    ELSE Done(FALSE, selection, queue, <<>>, FALSE)

\* The match on the key without the is_working_dir test of the reset key.
on_key_reset_on_any_panel(e, ok) ==
    CASE e = STATUS_STAGE_FILE ->
            LET r == index_add_remove(ok)
            IN  IF r.panicked THEN r
                ELSE Done(TRUE, r.selection,
                          IF r.ret THEN Append(r.queue, Update(ALL))
                          ELSE r.queue,
                          r.git, FALSE)
      [] e = STATUS_RESET_FILE -> dispatch_reset_workdir
      [] e = MOVE_DOWN -> move_selection(1)
      [] e = MOVE_UP -> move_selection(-1)
      [] OTHER -> Done(FALSE, selection, queue, <<>>, FALSE)

\* ChangesComponent::event, the match on the key.
on_key(e, ok) ==
    CASE e = STATUS_STAGE_FILE ->
            LET r == index_add_remove(ok)
            IN  IF r.panicked THEN r
                ELSE Done(TRUE, r.selection,
                          IF r.ret THEN Append(r.queue, Update(ALL))
                          ELSE r.queue,
                          r.git, FALSE)
      [] e = STATUS_RESET_FILE ->
            IF is_working_dir THEN dispatch_reset_workdir
            ELSE Done(FALSE, selection, queue, <<>>, FALSE)
      [] e = MOVE_DOWN -> move_selection(1)
      [] e = MOVE_UP -> move_selection(-1)
      [] OTHER -> Done(FALSE, selection, queue, <<>>, FALSE)

\* ChangesComponent::event: [ret, selection, queue, git, panicked].
changes_event_result(ev, ok) ==
    IF focused /\ ev.type = "Key"
    THEN on_key(ev, ok)
    ELSE Done(FALSE, selection, queue, <<>>, FALSE)

\* What the panel and the queue were before the last operation.
Before ==
    [items |-> items, selection |-> selection, queue |-> queue,
     focused |-> focused, show_selection |-> show_selection]

commitVars == <<msg, visible, stage_empty, commits, tmpfiles>>

\* ChangesComponent::update called with the list of a status query.
call_update(list) ==
    /\ ~panicked
    /\ items' = update(list).items
    /\ selection' = update(list).selection
    /\ last' = [op |-> "update", commit |-> FALSE, list |-> list,
                pre |-> Before]
    /\ UNCHANGED <<focused, show_selection, is_working_dir, queue, panicked>>
    /\ UNCHANGED commitVars

\* ChangesComponent::event; ok is what git answers if it is called.
changes_event(ev, ok) ==
    /\ ~panicked
    /\ LET r == changes_event_result(ev, ok)
       IN  /\ selection' = r.selection
           /\ queue' = r.queue
           /\ panicked' = r.panicked
           /\ last' = [op |-> "changes_event", commit |-> FALSE, ev |-> ev,
                       ret |-> r.ret, git |-> r.git, ok |-> ok,
                       pre |-> Before]
    /\ UNCHANGED <<items, focused, show_selection, is_working_dir>>
    /\ UNCHANGED commitVars

\* ChangesComponent::focus
focus(f) ==
    /\ ~panicked
    /\ focused' = f
    /\ last' = [op |-> "focus", commit |-> FALSE, pre |-> Before]
    /\ UNCHANGED <<items, selection, show_selection, is_working_dir, queue,
                   panicked>>
    /\ UNCHANGED commitVars

\* ChangesComponent::focus_select
focus_select(f) ==
    /\ ~panicked
    /\ focused' = f
    /\ show_selection' = f
    /\ last' = [op |-> "focus_select", commit |-> FALSE, pre |-> Before]
    /\ UNCHANGED <<items, selection, is_working_dir, queue, panicked>>
    /\ UNCHANGED commitVars

\* A panel of either kind, focused or not, beside a fresh CommitComponent.
ChangesInit ==
    /\ msg = <<>>
    /\ visible = FALSE
    /\ stage_empty = TRUE
    /\ queue = <<>>
    /\ commits = <<>>
    /\ tmpfiles = OtherTmpFiles
    /\ panicked = FALSE
    /\ last = [op |-> "new", commit |-> FALSE]
    /\ \E f \in BOOLEAN, workdir \in BOOLEAN : ChangesNew(f, workdir)

\* Key events reach the panel while fewer than MaxQueue queue entries wait
\* for the application; a git call that is not made answers nothing.
ChangesNext ==
    \/ \E list \in ItemLists(MaxItems) : call_update(list)
    \/ /\ Len(queue) < MaxQueue
       /\ \E ev \in ChangesEvents :
          \E ok \in IF changes_event_result(ev, TRUE).git = <<>>
                    THEN {FALSE} ELSE BOOLEAN :
             changes_event(ev, ok)
    \/ \E f \in BOOLEAN : focus(f)
    \/ \E f \in BOOLEAN : focus_select(f)
    \/ process_queue

ChangesSpec == ChangesInit /\ [][ChangesNext]_vars

\* ------------------------------------------------------ the queue
MaxPending == 3

\* What processing one entry may push: nothing, or a refresh request.
FollowUps == {<<>>, <<Update(ALL)>>}

\* One entry of the draining pass: the entry at the head is taken and
\* processed. An Update entry makes the panel recompute against the latest
\* status list; whatever the processing pushes is appended at the tail.
process_entry(list, follow) ==
    /\ ~panicked
    /\ queue # <<>>
    /\ IF Head(queue).type = "Update"
       THEN /\ items' = update(list).items
            /\ selection' = update(list).selection
       ELSE UNCHANGED <<items, selection>>
    /\ queue' = Tail(queue) \o follow
    /\ last' = [op |-> "process_entry", commit |-> FALSE,
                entry |-> Head(queue), pushed |-> follow,
                pre_queue |-> queue]
    /\ UNCHANGED <<focused, show_selection, is_working_dir, panicked>>
    /\ UNCHANGED commitVars

\* A producer and the consumer of one queue: the panel's key handler pushes
\* while fewer than MaxPending entries wait, and the draining pass takes
\* entries from the head.
QueueNext ==
    \/ \E list \in ItemLists(MaxItems) : call_update(list)
    \/ /\ Len(queue) < MaxPending
       /\ \E ev \in ChangesEvents :
          \E ok \in IF changes_event_result(ev, TRUE).git = <<>>
                    THEN {FALSE} ELSE BOOLEAN :
             changes_event(ev, ok)
    \/ /\ queue # <<>>
       /\ \E list \in IF Head(queue).type = "Update"
                      THEN ItemLists(MaxItems) ELSE {<<>>} :
          \E follow \in FollowUps :
             /\ Len(queue) - 1 + Len(follow) <= MaxPending
             /\ process_entry(list, follow)

QueueSpec == Init /\ [][QueueNext]_vars

\* ------------------------------------------------ claims on changes.rs
\* The last operation was move_selection(MoveDelta), reached through a
\* MOVE_UP or MOVE_DOWN key on the focused panel.
Moved ==
    /\ last.op = "changes_event"
    /\ last.pre.focused
    /\ last.ev \in {MOVE_UP, MOVE_DOWN}

MoveDelta == IF last.ev = MOVE_DOWN THEN 1 ELSE -1

\* C11: update with a list whose content equals the cached list leaves the
\* item list and the selection as they were, at every such call.
C11_RedundantUpdateIsNoOp ==
    (last.op = "update" /\ last.list = last.pre.items) =>
        /\ items = last.pre.items
        /\ selection = last.pre.selection

C11_Witness ==
    /\ last.op = "update"
    /\ last.list = last.pre.items
    /\ Len(items) = 2
    /\ selection = Some(1)

\* C12: update with a list that differs from the cached one replaces the
\* item list; an empty new list leaves no selection, any other leaves
\* min(previous selection, new length - 1), where no previous selection
\* counts as index 0.
C12_ChangedUpdateClamps ==
    (last.op = "update" /\ last.list # last.pre.items) =>
        /\ items = last.list
        /\ IF last.list = <<>>
           THEN selection = None
           ELSE LET previous == IF last.pre.selection = None THEN 0
                                ELSE last.pre.selection[1]
                IN  selection =
                       Some(IF previous < Len(last.list) - 1 THEN previous
                            ELSE Len(last.list) - 1)

C12_Witness ==
    /\ last.op = "update"
    /\ last.pre.selection = Some(1)
    /\ Len(last.pre.items) = 2
    /\ Len(last.list) = 1
    /\ selection = Some(0)

\* C13: a selection that is present is below the number of items, and an
\* empty item list has no selection.
C13_SelectionInRange ==
    /\ selection # None => selection[1] < Len(items)
    /\ items = <<>> => selection = None

C13_Witness ==
    /\ last.op = "changes_event"
    /\ last.ev = MOVE_DOWN
    /\ last.ret
    /\ Len(items) = 2
    /\ last.pre.selection = Some(0)
    /\ selection = Some(1)

\* C14: move_selection on an empty list returns false and changes neither
\* the panel nor the queue; on a non-empty list it returns true, and a move
\* below index 0 lands on 0, a move above the last index on the last index.
C14_MoveClampsAtEnds ==
    Moved =>
        IF last.pre.items = <<>>
        THEN /\ ~last.ret
             /\ items = last.pre.items
             /\ selection = last.pre.selection
             /\ focused = last.pre.focused
             /\ show_selection = last.pre.show_selection
             /\ queue = last.pre.queue
        ELSE /\ last.ret
             /\ last.pre.selection # None
             /\ last.pre.selection[1] + MoveDelta < 0 => selection = Some(0)
             /\ last.pre.selection[1] + MoveDelta > Len(items) - 1 =>
                   selection = Some(Len(items) - 1)

C14_Witness ==
    /\ Moved
    /\ last.ev = MOVE_UP
    /\ Len(items) = 2
    /\ last.pre.selection = Some(0)
    /\ selection = Some(0)
    /\ last.ret

\* C15: on a non-empty list move_selection(delta) returns true, leaves the
\* selection at selection + delta brought into 0 .. length - 1, and appends
\* exactly one Update(DIFF) to the queue, whether or not the index moved.
C15_MoveSucceedsOnNonEmpty ==
    (Moved /\ last.pre.items # <<>>) =>
        /\ last.ret
        /\ last.pre.selection # None
        /\ LET target == last.pre.selection[1] + MoveDelta
               top == Len(last.pre.items) - 1
           IN  selection = Some(IF target < 0 THEN 0
                                ELSE IF target > top THEN top ELSE target)
        /\ items = last.pre.items
        /\ queue = Append(last.pre.queue, Update(DIFF))

C15_Witness ==
    /\ Moved
    /\ last.ev = MOVE_DOWN
    /\ last.pre.items # <<>>
    /\ last.pre.selection = Some(Len(items) - 1)
    /\ selection = last.pre.selection
    /\ queue = Append(last.pre.queue, Update(DIFF))

\* C18: a non-empty item list always has a selection, so move_selection on
\* a non-empty list never takes its failure path.
C18_NonEmptyHasSelection ==
    /\ items # <<>> => selection # None
    /\ (Moved /\ last.pre.items # <<>>) =>
          (last.pre.selection # None /\ last.ret)

C18_Witness ==
    /\ last.op = "update"
    /\ last.pre.items = <<>>
    /\ last.pre.selection = None
    /\ items # <<>>
    /\ selection = Some(0)

\* The entries the last ChangesComponent operation put on the queue.
PanelPushed == SubSeq(queue, Len(last.pre.queue) + 1, Len(queue))

PanelQueueKept ==
    /\ Len(queue) >= Len(last.pre.queue)
    /\ SubSeq(queue, 1, Len(last.pre.queue)) = last.pre.queue

\* The path of the item that was selected before the last operation.
SelectedPath == last.pre.items[last.pre.selection[1] + 1].path

\* C17: the stage key on a focused panel with a selection makes one git
\* call on the selected item's path, stage_add on the working-directory
\* panel and reset_stage on the other; one Update(ALL) is enqueued exactly
\* when that call succeeded; without a selection no call is made and
\* nothing is enqueued.
C17_StageKeyCallsGit ==
    (/\ last.op = "changes_event"
     /\ last.pre.focused
     /\ last.ev = STATUS_STAGE_FILE) =>
        /\ PanelQueueKept
        /\ IF last.pre.selection # None
           THEN /\ last.git =
                      <<GitCall(IF is_working_dir THEN "stage_add"
                                ELSE "reset_stage", SelectedPath)>>
                /\ PanelPushed = IF last.ok THEN <<Update(ALL)>> ELSE <<>>
           ELSE /\ last.git = <<>>
                /\ PanelPushed = <<>>

C17_Witness ==
    /\ last.op = "changes_event"
    /\ last.pre.focused
    /\ last.ev = STATUS_STAGE_FILE
    /\ ~is_working_dir
    /\ last.pre.selection = Some(1)
    /\ last.git = <<GitCall("reset_stage", "b.rs")>>
    /\ last.ok
    /\ PanelPushed = <<Update(ALL)>>

\* C20: an event given to a panel that is not focused is not consumed and
\* changes neither items, selection nor queue; an operation of the panel
\* enqueues a ConfirmResetFile exactly when it is the reset key on a focused
\* working-directory panel with a selection, the entry then carries the
\* selected item's path, and the reset key makes no git call.
C20_UnfocusedIgnoresAndResetAsks ==
    last.op = "changes_event" =>
        /\ ~last.pre.focused =>
              /\ ~last.ret
              /\ items = last.pre.items
              /\ selection = last.pre.selection
              /\ queue = last.pre.queue
              /\ last.git = <<>>
        /\ PanelQueueKept
        /\ IF /\ last.ev = STATUS_RESET_FILE
              /\ last.pre.focused
              /\ is_working_dir
              /\ last.pre.selection # None
           THEN PanelPushed = <<ConfirmResetFile(SelectedPath)>>
           ELSE \A i \in DOMAIN PanelPushed :
                   PanelPushed[i].type # "ConfirmResetFile"
        /\ last.ev = STATUS_RESET_FILE => last.git = <<>>

C20_Witness ==
    /\ last.op = "changes_event"
    /\ last.ev = STATUS_RESET_FILE
    /\ ~last.pre.focused
    /\ is_working_dir
    /\ selection = Some(1)
    /\ ~last.ret
    /\ queue = last.pre.queue

\* C19: an event handled while the dialog is hidden or while the message is
\* empty attempts no commit: no hook runs, no commit is created, no
\* temporary file appears and the queue stays as it is; and the dialog
\* becomes visible only in a step taken while the stage is not empty.
C19_CommitNeedsVisibleMessage ==
    [][ /\ (last'.op = "event" /\ (~visible \/ msg = <<>>)) =>
              /\ ~last'.commit
              /\ queue' = queue
              /\ commits' = commits
              /\ tmpfiles' = tmpfiles
        /\ (~visible /\ visible') => ~stage_empty ]_vars

C19_Witness ==
    /\ last.op = "event"
    /\ ~last.commit
    /\ last.ev = Key("Enter", "", FALSE)
    /\ last.ret
    /\ visible
    /\ msg = <<>>
    /\ ~stage_empty
    /\ commits = <<>>

====
